---- MODULE Spec2Model ----
(***************************************************************************)
(* A model of review_pr.py, the diff-scoped review engine: the file        *)
(* eligibility filter, the unified-diff parser, the rule engine, the       *)
(* extraction of a JSON array from the generative service's text, the      *)
(* validation of candidate findings and the review_code pipeline.          *)
(*                                                                         *)
(* Text is modelled as a sequence of one-character strings, so that        *)
(* startswith, endswith, find, rfind, slicing, strip and the JSON grammar  *)
(* are computed character by character, as the code computes them.         *)
(***************************************************************************)
EXTENDS Naturals, Integers, Sequences, FiniteSets, TLC

VARIABLES
    pc,                   \* position of the running function
    path,                 \* argument of is_reviewable_file / rule_based_review
    reviewable,           \* value returned by is_reviewable_file
    change,               \* the change the version control system rendered as diff
    diff,                 \* diff text, as its sequence of lines (diff_text.splitlines())
    idx,                  \* number of diff lines parse_unified_diff has consumed
    file_path,            \* parse_unified_diff: file_path (None or a str)
    new_line_number,      \* parse_unified_diff: new_line_number (None or an int)
    added_lines_by_file,  \* the dict file -> set of added lines, in insertion order
    prev_cursor,          \* new_line_number before the last parsed line
    fileIdx,              \* review_code: number of dict entries the scan loop has visited
    src,                  \* rule_based_review: outcome of reading the file
    added_lines,          \* rule_based_review: the added_lines argument
    rule_based_items,     \* review_code: rule_based_items
    scanned,              \* the calls of rule_based_review: the path, what reading
                          \* the file gave and the number of findings, in order
    prompted,             \* whether build_review_prompt was called
    serviceCalls,         \* number of calls of client.generate
    raw_text,             \* the text the service returned / argument of extract_json_array
    items,                \* value returned by extract_json_array / argument of the filter
    outcome,              \* how the call of the service ended: "none", "raised", "text"
    result,               \* value returned by the function under analysis
    raised                \* whether an exception escaped the function under analysis

vars == <<pc, path, reviewable, change, diff, idx, file_path, new_line_number,
          added_lines_by_file, prev_cursor, fileIdx, src, added_lines,
          rule_based_items, scanned, prompted, serviceCalls, raw_text, items,
          outcome, result, raised>>

parseVars == <<change, diff, idx, file_path, new_line_number, added_lines_by_file,
               prev_cursor>>
scanVars == <<fileIdx, src, added_lines, rule_based_items, scanned>>
serviceVars == <<prompted, serviceCalls, raw_text, items, outcome>>

(***************************************************************************)
(* Python values.  Every value has the same record shape, so that any two  *)
(* of them can be compared: t is the type, s the characters of a str, n    *)
(* the value of an int (or 0/1 for a bool), a the elements of a list and   *)
(* o the members of a dict, in insertion order.                            *)
(***************************************************************************)
PyNone == [t |-> "null", s |-> <<>>, n |-> 0, a |-> <<>>, o |-> <<>>]
PyStr(chars) == [t |-> "str", s |-> chars, n |-> 0, a |-> <<>>, o |-> <<>>]
PyInt(k) == [t |-> "int", s |-> <<>>, n |-> k, a |-> <<>>, o |-> <<>>]
PyBool(b) == [t |-> "bool", s |-> <<>>, n |-> IF b THEN 1 ELSE 0, a |-> <<>>, o |-> <<>>]
PyList(elems) == [t |-> "list", s |-> <<>>, n |-> 0, a |-> elems, o |-> <<>>]
PyDict(members) == [t |-> "dict", s |-> <<>>, n |-> 0, a |-> <<>>, o |-> members]
Member(key, val) == [k |-> key, val |-> val]

(***************************************************************************)
(* str methods.                                                            *)
(***************************************************************************)
\* s.startswith(p)
StartsWith(s, p) == Len(p) <= Len(s) /\ SubSeq(s, 1, Len(p)) = p

\* s.endswith(p)
EndsWith(s, p) == Len(p) <= Len(s) /\ SubSeq(s, Len(s) - Len(p) + 1, Len(s)) = p

\* s.startswith(tuple) / s.endswith(tuple)
StartsWithAny(s, ps) == \E p \in ps : StartsWith(s, p)
EndsWithAny(s, ps) == \E p \in ps : EndsWith(s, p)

\* s.find(c) and s.rfind(c) as 1-based positions, 0 for Python's -1
Find(s, c) ==
    IF \E i \in 1..Len(s) : s[i] = c
    THEN CHOOSE i \in 1..Len(s) : s[i] = c /\ \A j \in 1..(i - 1) : s[j] # c
    ELSE 0
RFind(s, c) ==
    IF \E i \in 1..Len(s) : s[i] = c
    THEN CHOOSE i \in 1..Len(s) : s[i] = c /\ \A j \in (i + 1)..Len(s) : s[j] # c
    ELSE 0

\* the whitespace str.strip() removes, among the characters the inputs use
Whitespace == {" ", "\t", "\n", "\r"}

RECURSIVE LStrip(_)
LStrip(s) == IF s # <<>> /\ Head(s) \in Whitespace THEN LStrip(Tail(s)) ELSE s
RECURSIVE RStrip(_)
RStrip(s) ==
    IF s # <<>> /\ s[Len(s)] \in Whitespace THEN RStrip(SubSeq(s, 1, Len(s) - 1)) ELSE s
Strip(s) == RStrip(LStrip(s))

Digits == {"0", "1", "2", "3", "4", "5", "6", "7", "8", "9"}
DigitValue(c) ==
    CASE c = "0" -> 0 [] c = "1" -> 1 [] c = "2" -> 2 [] c = "3" -> 3 [] c = "4" -> 4
      [] c = "5" -> 5 [] c = "6" -> 6 [] c = "7" -> 7 [] c = "8" -> 8 [] c = "9" -> 9
DigitChar(d) ==
    CASE d = 0 -> "0" [] d = 1 -> "1" [] d = 2 -> "2" [] d = 3 -> "3" [] d = 4 -> "4"
      [] d = 5 -> "5" [] d = 6 -> "6" [] d = 7 -> "7" [] d = 8 -> "8" [] d = 9 -> "9"

\* int(s) of a non-empty run of decimal digits
RECURSIVE DigitsToInt(_)
DigitsToInt(s) ==
    IF s = <<>> THEN 0
    ELSE 10 * DigitsToInt(SubSeq(s, 1, Len(s) - 1)) + DigitValue(s[Len(s)])

\* str(k) of an int k >= 0
RECURSIVE NatToChars(_)
NatToChars(k) ==
    IF k < 10 THEN <<DigitChar(k)>> ELSE NatToChars(k \div 10) \o <<DigitChar(k % 10)>>

\* str(k) of an int
IntToChars(k) == IF k < 0 THEN <<"-">> \o NatToChars(0 - k) ELSE NatToChars(k)

(***************************************************************************)
(* is_reviewable_file                                                      *)
(***************************************************************************)
excluded_prefixes ==
    { <<".","g","i","t","h","u","b","/">>,
      <<".","h","u","s","k","y","/">>,
      <<"s","c","r","i","p","t","s","/">>,
      <<"c","o","n","f","i","g","/">>,
      <<"n","o","d","e","_","m","o","d","u","l","e","s","/">>,
      <<"p","u","b","l","i","c","/">>,
      <<"_","_","t","e","s","t","s","_","_","/">>,
      <<".","v","s","c","o","d","e","/">>,
      <<".","i","d","e","a","/">>,
      <<".","g","i","t","/">> }

excluded_files ==
    { <<"r","e","v","i","e","w","_","p","r",".","p","y">>,
      <<"r","e","v","i","e","w",".","p","y">> }

allowed_exts ==
    { <<".","j","s">>, <<".","j","s","x">>, <<".","t","s">>, <<".","t","s","x">>,
      <<".","m","j","s">>, <<".","c","j","s">>, <<".","v","u","e">>,
      <<".","s","v","e","l","t","e">>,
      <<".","p","y">>, <<".","r","b">>, <<".","p","h","p">>, <<".","g","o">>,
      <<".","r","s">>, <<".","j","a","v","a">>, <<".","k","t">>, <<".","k","t","s">>,
      <<".","s","c","a","l","a">>,
      <<".","c","s">>, <<".","c","s","h","t","m","l">>, <<".","v","b">>,
      <<".","f","s">>, <<".","s","w","i","f","t">>,
      <<".","c">>, <<".","c","c">>, <<".","c","x","x">>, <<".","c","p","p">>,
      <<".","h">>, <<".","h","p","p">>, <<".","h","h">>, <<".","m">>, <<".","m","m">>,
      <<".","s","q","l">>, <<".","p","s","1">>, <<".","s","h">> }

\* is_reviewable_file(path), path being any Python value
is_reviewable_file(p) ==
    IF p.t # "str" THEN FALSE
    ELSE IF StartsWithAny(p.s, excluded_prefixes) THEN FALSE
    ELSE IF EndsWithAny(p.s, excluded_files) THEN FALSE
    ELSE EndsWithAny(p.s, allowed_exts)

(***************************************************************************)
(* parse_unified_diff                                                      *)
(***************************************************************************)
\* the characters \s matches, among the characters the inputs use
RegexSpace == {" ", "\t"}

At(s, i, c) == i <= Len(s) /\ s[i] = c

\* the position after the longest run of characters of cs that starts at i
RECURSIVE SkipWhile(_, _, _)
SkipWhile(s, i, cs) == IF i <= Len(s) /\ s[i] \in cs THEN SkipWhile(s, i + 1, cs) ELSE i

\* the position after an optional (?:,\d+) at i
SkipCount(s, i) ==
    IF At(s, i, ",") /\ SkipWhile(s, i + 1, Digits) > i + 1
    THEN SkipWhile(s, i + 1, Digits)
    ELSE i

FileHeaderPrefix == <<"+","+","+"," ","b","/">>

\* diff_file_header.match(line): ^\+\+\+ b\/(.+)$
diff_file_header(line) ==
    LET ok == StartsWith(line, FileHeaderPrefix) /\ Len(line) > Len(FileHeaderPrefix)
    IN  [ok |-> ok,
         group1 |-> IF ok THEN SubSeq(line, Len(FileHeaderPrefix) + 1, Len(line)) ELSE <<>>]

\* hunk_header.match(line): ^@@\s+-\d+(?:,\d+)?\s+\+(\d+)(?:,(\d+))?\s+@@
hunk_header(line) ==
    LET p1 == 3                                 \* after @@
        p2 == SkipWhile(line, p1, RegexSpace)   \* after \s+, at -
        p3 == p2 + 1
        p4 == SkipWhile(line, p3, Digits)       \* after \d+
        p5 == SkipCount(line, p4)               \* after (?:,\d+)?
        p6 == SkipWhile(line, p5, RegexSpace)   \* after \s+, at +
        p7 == p6 + 1
        p8 == SkipWhile(line, p7, Digits)       \* after (\d+)
        p9 == SkipCount(line, p8)               \* after (?:,(\d+))?
        p10 == SkipWhile(line, p9, RegexSpace)  \* after \s+, at @@
        ok == /\ StartsWith(line, <<"@", "@">>)
              /\ p2 > p1 /\ At(line, p2, "-") /\ p4 > p3
              /\ p6 > p5 /\ At(line, p6, "+") /\ p8 > p7
              /\ p10 > p9 /\ At(line, p10, "@") /\ At(line, p10 + 1, "@")
    IN  [ok |-> ok, group1 |-> IF ok THEN DigitsToInt(SubSeq(line, p7, p8 - 1)) ELSE 0]

\* the dict file -> set of line numbers is a sequence of entries, in insertion order
DictKeys(d) == {d[i].file : i \in 1..Len(d)}
DictHas(d, f) == f \in DictKeys(d)
DictGet(d, f) == CHOOSE i \in 1..Len(d) : d[i].file = f
DictLines(d, f) == d[DictGet(d, f)].lines
DictSetDefault(d, f) == IF DictHas(d, f) THEN d ELSE Append(d, [file |-> f, lines |-> {}])
DictAddLine(d, f, k) ==
    [i \in 1..Len(d) |-> IF d[i].file = f THEN [d[i] EXCEPT !.lines = @ \cup {k}] ELSE d[i]]

ParseState(fp, nln, d) == [file_path |-> fp, new_line_number |-> nln, added |-> d]

\* a plausible slip: an ineligible header leaves the previous file selected
OnFileHeaderKeepSelected(st, candidate_path) ==
    IF is_reviewable_file(PyStr(candidate_path))
    THEN ParseState(PyStr(candidate_path), PyNone, DictSetDefault(st.added, candidate_path))
    ELSE ParseState(st.file_path, PyNone, st.added)

\* a file header line: select and create the file's entry, or deselect
OnFileHeader(st, candidate_path) ==
    IF is_reviewable_file(PyStr(candidate_path))
    THEN ParseState(PyStr(candidate_path), PyNone, DictSetDefault(st.added, candidate_path))
    ELSE ParseState(PyNone, PyNone, st.added)

\* a hunk header line: the cursor starts at the hunk's start in the new file
OnHunkHeader(st, new_start) == ParseState(st.file_path, PyInt(new_start), st.added)

Plus3 == <<"+", "+", "+">>
Minus3 == <<"-", "-", "-">>
DiffGit == <<"d","i","f","f"," ","-","-","g","i","t">>

\* any other line
OnContent(st, line) ==
    IF st.file_path.t = "null" \/ st.new_line_number.t = "null" THEN st
    ELSE IF StartsWith(line, Plus3) \/ StartsWith(line, Minus3) \/ StartsWith(line, DiffGit)
    THEN st
    ELSE IF StartsWith(line, <<"+">>) /\ ~StartsWith(line, Plus3)
    THEN ParseState(st.file_path, PyInt(st.new_line_number.n + 1),
                    DictAddLine(st.added, st.file_path.s, st.new_line_number.n))
    ELSE IF StartsWith(line, <<"-">>) /\ ~StartsWith(line, Minus3)
    THEN st
    ELSE ParseState(st.file_path, PyInt(st.new_line_number.n + 1), st.added)

\* one iteration of the loop over diff_text.splitlines()
ParseStep(st, line) ==
    IF diff_file_header(line).ok THEN OnFileHeader(st, diff_file_header(line).group1)
    ELSE IF hunk_header(line).ok THEN OnHunkHeader(st, hunk_header(line).group1)
    ELSE OnContent(st, line)

(***************************************************************************)
(* The changes a version control system renders as unified diffs.  A       *)
(* change is a sequence of file sections; a section has a path and hunks;  *)
(* a hunk has its start in the new file and its lines, each of a kind      *)
(* (ctx, add, del, or nonl for the "\ No newline at end of file" marker)   *)
(* with its text.                                                          *)
(***************************************************************************)
HunkLine(kind, text) == [kind |-> kind, text |-> text]
Hunk(new_start, lines) == [new_start |-> new_start, lines |-> lines]
Section(p, hunks) == [path |-> p, hunks |-> hunks]

NoNewlineMarker ==
    <<"\\"," ","N","o"," ","n","e","w","l","i","n","e"," ","a","t"," ","e","n","d",
      " ","o","f"," ","f","i","l","e">>

RenderLine(l) ==
    CASE l.kind = "ctx" -> <<" ">> \o l.text
      [] l.kind = "add" -> <<"+">> \o l.text
      [] l.kind = "del" -> <<"-">> \o l.text
      [] l.kind = "nonl" -> NoNewlineMarker

CountKind(lines, kinds) == Cardinality({i \in 1..Len(lines) : lines[i].kind \in kinds})

RenderHunkHeader(h) ==
    <<"@","@"," ","-">> \o NatToChars(h.new_start) \o <<",">>
        \o NatToChars(CountKind(h.lines, {"ctx", "del"}))
        \o <<" ","+">> \o NatToChars(h.new_start) \o <<",">>
        \o NatToChars(CountKind(h.lines, {"ctx", "add"})) \o <<" ","@","@">>

RenderHunk(h) == <<RenderHunkHeader(h)>> \o [i \in 1..Len(h.lines) |-> RenderLine(h.lines[i])]

RECURSIVE RenderHunks(_)
RenderHunks(hs) == IF hs = <<>> THEN <<>> ELSE RenderHunk(Head(hs)) \o RenderHunks(Tail(hs))

RenderSection(f) ==
    << DiffGit \o <<" ","a","/">> \o f.path \o <<" ","b","/">> \o f.path,
       <<"i","n","d","e","x"," ","1",".",".","2">>,
       <<"-","-","-"," ","a","/">> \o f.path,
       FileHeaderPrefix \o f.path >> \o RenderHunks(f.hunks)

RECURSIVE Render(_)
Render(c) == IF c = <<>> THEN <<>> ELSE RenderSection(Head(c)) \o Render(Tail(c))

\* the new-revision numbers of the lines a hunk adds: the hunk's start plus the
\* number of context and added lines that precede the added line in the hunk
HunkAdded(h) ==
    {h.new_start + CountKind(SubSeq(h.lines, 1, i - 1), {"ctx", "add"}) :
        i \in {j \in 1..Len(h.lines) : h.lines[j].kind = "add"}}

\* the new-revision numbers of the lines change c adds to file f
AddedIn(c, f) ==
    UNION {UNION {HunkAdded(c[i].hunks[j]) : j \in 1..Len(c[i].hunks)} :
        i \in {k \in 1..Len(c) : c[k].path = f}}

\* the kind of each line of Render(c), "hdr" for the header lines
RenderedKindsOfHunk(h) == <<"hdr">> \o [i \in 1..Len(h.lines) |-> h.lines[i].kind]

RECURSIVE RenderedKindsOfHunks(_)
RenderedKindsOfHunks(hs) ==
    IF hs = <<>> THEN <<>>
    ELSE RenderedKindsOfHunk(Head(hs)) \o RenderedKindsOfHunks(Tail(hs))

RECURSIVE RenderedKinds(_)
RenderedKinds(c) ==
    IF c = <<>> THEN <<>>
    ELSE <<"hdr", "hdr", "hdr", "hdr">> \o RenderedKindsOfHunks(Head(c).hunks)
            \o RenderedKinds(Tail(c))

(***************************************************************************)
(* Inputs.                                                                 *)
(***************************************************************************)
SeqsUpTo(S, n) == UNION {[1..k -> S] : k \in 0..n}

P_a_py == <<"a",".","p","y">>
P_src_app_js == <<"s","r","c","/","a","p","p",".","j","s">>
P_node ==
    <<"n","o","d","e","_","m","o","d","u","l","e","s","/","x","/","i","n","d","e","x",".","j","s">>

T_x == <<"x"," ","="," ","1">>
T_y == <<"y"," ","="," ","2">>
T_z == <<"z">>
T_inc == <<"+","+","i",";">>
T_neg == <<"-","1",",">>
T_dec == <<"-","-","i",";">>
T_git == <<"d","i","f","f"," ","-","-","g","i","t"," ","q">>

\* the longest hunk body of the parser's inputs
MaxHunkLines == 3

HunkStarts == {1, 12}

LineInputs ==
    { HunkLine("ctx", T_x), HunkLine("ctx", T_git),
      HunkLine("add", T_y), HunkLine("add", T_inc), HunkLine("add", T_neg),
      HunkLine("del", T_z), HunkLine("del", T_dec),
      HunkLine("nonl", <<>>) }

\* a hunk changes something, and a "\ No newline at end of file" marker follows the
\* last line of the old file, of the new file or of both
ValidLines(ls) ==
    /\ \E i \in 1..Len(ls) : ls[i].kind \in {"add", "del"}
    /\ \A i \in 1..Len(ls) : ls[i].kind = "nonl" =>
          /\ i > 1
          /\ ls[i - 1].kind # "nonl"
          /\ \A j \in (i + 1)..Len(ls) :
                CASE ls[i - 1].kind = "del" -> ls[j].kind \in {"add", "nonl"}
                  [] ls[i - 1].kind = "add" -> ls[j].kind \in {"del", "nonl"}
                  [] OTHER -> FALSE

ParserChanges ==
    { <<Section(P_a_py, <<Hunk(n, ls)>>)>> :
        <<n, ls>> \in HunkStarts \X {l \in SeqsUpTo(LineInputs, MaxHunkLines) : ValidLines(l)} }

\* the paths given to is_reviewable_file: a directory, a stem and an extension
DirInputs ==
    { <<>>,
      <<"s","r","c","/">>,
      <<"l","i","b","/","s","c","r","i","p","t","s","/">>,
      <<"n","o","d","e","_","m","o","d","u","l","e","s","/","x","/">>,
      <<".","g","i","t","h","u","b","/">>,
      <<"c","o","n","f","i","g","/">>,
      <<"p","u","b","l","i","c">>,
      <<".","g","i","t","/">> }
StemInputs ==
    { <<"a","p","p">>,
      <<"r","e","v","i","e","w">>,
      <<"p","r","e","v","i","e","w">>,
      <<"r","e","v","i","e","w","_","p","r">>,
      <<"i","n","d","e","x">> }
ExtInputs ==
    { <<".","p","y">>,
      <<".","j","s">>,
      <<".","m","d">>,
      <<".","p","y","c">>,
      <<>> }
PathInputs ==
    {PyStr(d \o s \o e) : <<d, s, e>> \in DirInputs \X StemInputs \X ExtInputs}
        \cup {PyNone, PyInt(7)}

(***************************************************************************)
(* Initial values of the variables a specification does not use.           *)
(***************************************************************************)
NoFile == [readable |-> FALSE, lines |-> <<>>]

EligIdle == path = PyNone /\ reviewable = FALSE
ParseIdle ==
    /\ change = <<>> /\ diff = <<>> /\ idx = 0
    /\ file_path = PyNone /\ new_line_number = PyNone
    /\ added_lines_by_file = <<>> /\ prev_cursor = PyNone
ScanIdle ==
    /\ fileIdx = 0 /\ src = NoFile /\ added_lines = {}
    /\ rule_based_items = <<>> /\ scanned = <<>>
ServiceIdle ==
    /\ prompted = FALSE /\ serviceCalls = 0 /\ raw_text = <<>> /\ items = <<>>
    /\ outcome = "none"
ResultIdle == result = <<>> /\ raised = FALSE

(***************************************************************************)
(* is_reviewable_file applied to a path.                                   *)
(***************************************************************************)
InitElig ==
    /\ pc = "is_reviewable_file"
    /\ path \in PathInputs
    /\ reviewable = FALSE
    /\ ParseIdle /\ ScanIdle /\ ServiceIdle /\ ResultIdle

IsReviewableFile ==
    /\ pc = "is_reviewable_file"
    /\ reviewable' = is_reviewable_file(path)
    /\ pc' = "done"
    /\ UNCHANGED <<path, parseVars, scanVars, serviceVars, result, raised>>

NextElig == IsReviewableFile

SpecElig == InitElig /\ [][NextElig]_vars

(***************************************************************************)
(* parse_unified_diff applied to the diff of a change, a line at a time.   *)
(***************************************************************************)
InitParse ==
    /\ pc = "parse"
    /\ change \in ParserChanges
    /\ diff = Render(change)
    /\ idx = 0
    /\ file_path = PyNone /\ new_line_number = PyNone
    /\ added_lines_by_file = <<>> /\ prev_cursor = PyNone
    /\ EligIdle /\ ScanIdle /\ ServiceIdle /\ ResultIdle

\* one iteration of the loop of parse_unified_diff
ParseLine ==
    /\ pc = "parse"
    /\ idx < Len(diff)
    /\ LET st == ParseStep(ParseState(file_path, new_line_number, added_lines_by_file),
                           diff[idx + 1])
       IN  /\ file_path' = st.file_path
           /\ new_line_number' = st.new_line_number
           /\ added_lines_by_file' = st.added
    /\ prev_cursor' = new_line_number
    /\ idx' = idx + 1
    /\ UNCHANGED <<pc, path, reviewable, change, diff, scanVars, serviceVars, result, raised>>

\* return added_lines_by_file
ParseReturn ==
    /\ pc = "parse"
    /\ idx = Len(diff)
    /\ pc' = "done"
    /\ result' = added_lines_by_file
    /\ UNCHANGED <<path, reviewable, parseVars, scanVars, serviceVars, raised>>

NextParse == ParseLine \/ ParseReturn

SpecParse == InitParse /\ [][NextParse]_vars

(***************************************************************************)
(* json.loads, for the JSON grammar without string escapes and without     *)
(* fractions or exponents (the inputs hold neither a backslash inside a    *)
(* string nor a number that is not an integer).                            *)
(***************************************************************************)
JsonWs == {" ", "\t", "\n", "\r"}

\* the result of a parsing step: ok, the value and the position after it
ParseFail == [ok |-> FALSE, val |-> PyNone, pos |-> 0]
ParseOk(v, p) == [ok |-> TRUE, val |-> v, pos |-> p]

SkipWs(s, i) == SkipWhile(s, i, JsonWs)

\* the position of the first c at or after i, 0 when there is none
FindFrom(s, i, c) ==
    IF \E j \in i..Len(s) : s[j] = c
    THEN CHOOSE j \in i..Len(s) : s[j] = c /\ \A k \in i..(j - 1) : s[k] # c
    ELSE 0

\* a string whose opening quote is s[i]: it ends at the next quote and holds no
\* control character
ParseString(s, i) ==
    LET close == FindFrom(s, i + 1, "\"")
    IN  IF close = 0 THEN ParseFail
        ELSE IF \E j \in (i + 1)..(close - 1) : s[j] \in {"\\", "\t", "\n", "\r"}
        THEN ParseFail
        ELSE ParseOk(PyStr(SubSeq(s, i + 1, close - 1)), close + 1)

\* an integer at s[i]: -?(0|[1-9]\d*)
ParseNumber(s, i) ==
    LET d == IF At(s, i, "-") THEN i + 1 ELSE i
        e == IF At(s, d, "0") THEN d + 1 ELSE SkipWhile(s, d, Digits)
    IN  IF e = d THEN ParseFail
        ELSE ParseOk(PyInt(IF d > i THEN 0 - DigitsToInt(SubSeq(s, d, e - 1))
                                    ELSE DigitsToInt(SubSeq(s, d, e - 1))), e)

HasAt(s, i, w) == i + Len(w) - 1 <= Len(s) /\ SubSeq(s, i, i + Len(w) - 1) = w

\* dict[key] = val
DictPut(members, key, val) ==
    IF \E i \in 1..Len(members) : members[i].k = key
    THEN [i \in 1..Len(members) |->
            IF members[i].k = key THEN Member(key, val) ELSE members[i]]
    ELSE Append(members, Member(key, val))

RECURSIVE ParseValue(_, _), ParseElems(_, _, _), ParseMembers(_, _, _)

\* the value that starts at s[i]
ParseValue(s, i) ==
    IF i > Len(s) THEN ParseFail
    ELSE IF s[i] = "\"" THEN ParseString(s, i)
    ELSE IF s[i] = "[" THEN
        IF At(s, SkipWs(s, i + 1), "]") THEN ParseOk(PyList(<<>>), SkipWs(s, i + 1) + 1)
        ELSE ParseElems(s, SkipWs(s, i + 1), <<>>)
    ELSE IF s[i] = "{" THEN
        IF At(s, SkipWs(s, i + 1), "}") THEN ParseOk(PyDict(<<>>), SkipWs(s, i + 1) + 1)
        ELSE ParseMembers(s, SkipWs(s, i + 1), <<>>)
    ELSE IF s[i] \in Digits \cup {"-"} THEN ParseNumber(s, i)
    ELSE IF HasAt(s, i, <<"t","r","u","e">>) THEN ParseOk(PyBool(TRUE), i + 4)
    ELSE IF HasAt(s, i, <<"f","a","l","s","e">>) THEN ParseOk(PyBool(FALSE), i + 5)
    ELSE IF HasAt(s, i, <<"n","u","l","l">>) THEN ParseOk(PyNone, i + 4)
    ELSE ParseFail

\* the elements of an array from s[i] on, acc being the elements before
ParseElems(s, i, acc) ==
    LET r == ParseValue(s, i)
        j == SkipWs(s, r.pos)
    IN  IF ~r.ok THEN ParseFail
        ELSE IF At(s, j, ",") THEN ParseElems(s, SkipWs(s, j + 1), Append(acc, r.val))
        ELSE IF At(s, j, "]") THEN ParseOk(PyList(Append(acc, r.val)), j + 1)
        ELSE ParseFail

\* the members of an object from s[i] on, acc being the members before
ParseMembers(s, i, acc) ==
    LET key == ParseString(s, i)
        c == SkipWs(s, key.pos)
        v == ParseValue(s, SkipWs(s, c + 1))
        j == SkipWs(s, v.pos)
    IN  IF ~At(s, i, "\"") THEN ParseFail
        ELSE IF ~key.ok THEN ParseFail
        ELSE IF ~At(s, c, ":") THEN ParseFail
        ELSE IF ~v.ok THEN ParseFail
        ELSE IF At(s, j, ",")
        THEN ParseMembers(s, SkipWs(s, j + 1), DictPut(acc, key.val.s, v.val))
        ELSE IF At(s, j, "}") THEN ParseOk(PyDict(DictPut(acc, key.val.s, v.val)), j + 1)
        ELSE ParseFail

\* json.loads(s): ok is FALSE when it raises
json_loads(s) ==
    LET r == ParseValue(s, SkipWs(s, 1))
    IN  IF r.ok /\ SkipWs(s, r.pos) = Len(s) + 1 THEN r ELSE ParseFail

(***************************************************************************)
(* extract_json_array                                                      *)
(***************************************************************************)
\* parsed if isinstance(parsed, list) else []
ListOrEmpty(parsed) == IF parsed.t = "list" THEN parsed.a ELSE <<>>

\* the block from the first [ to the last ]
ExtractCandidate(text) ==
    LET start == Find(text, "[")
        end == RFind(text, "]")
    IN  IF start # 0 /\ end # 0 /\ end > start
        THEN IF json_loads(SubSeq(text, start, end)).ok
             THEN ListOrEmpty(json_loads(SubSeq(text, start, end)).val)
             ELSE <<>>
        ELSE <<>>

extract_json_array(text) ==
    IF json_loads(text).ok THEN ListOrEmpty(json_loads(text).val)
    ELSE ExtractCandidate(text)

(***************************************************************************)
(* filter_items_to_changed_lines                                           *)
(***************************************************************************)
Finding(f, l, c) == [file |-> f, line |-> l, comment |-> c]

\* dict.get(key, default)
DictGetOr(members, key, default) ==
    IF \E i \in 1..Len(members) : members[i].k = key
    THEN members[CHOOSE i \in 1..Len(members) : members[i].k = key].val
    ELSE default

\* int(v): ok is FALSE when it raises
PyIntOf(v) ==
    LET body == Strip(v.s)
        signed == body # <<>> /\ Head(body) \in {"+", "-"}
        digits == IF signed THEN Tail(body) ELSE body
    IN  IF v.t \in {"int", "bool"} THEN [ok |-> TRUE, n |-> v.n]
        ELSE IF v.t = "str" /\ digits # <<>> /\ \A i \in 1..Len(digits) : digits[i] \in Digits
        THEN [ok |-> TRUE,
              n |-> IF signed /\ Head(body) = "-" THEN 0 - DigitsToInt(digits)
                    ELSE DigitsToInt(digits)]
        ELSE [ok |-> FALSE, n |-> 0]

RECURSIVE PyRepr(_), PyReprElems(_), PyReprMembers(_)
\* repr(v), for values whose strings hold no quote and no backslash
PyRepr(v) ==
    CASE v.t = "str" -> <<"'">> \o v.s \o <<"'">>
      [] v.t = "int" -> IntToChars(v.n)
      [] v.t = "bool" -> IF v.n = 1 THEN <<"T","r","u","e">> ELSE <<"F","a","l","s","e">>
      [] v.t = "null" -> <<"N","o","n","e">>
      [] v.t = "list" -> <<"[">> \o PyReprElems(v.a) \o <<"]">>
      [] v.t = "dict" -> <<"{">> \o PyReprMembers(v.o) \o <<"}">>
PyReprElems(a) ==
    IF a = <<>> THEN <<>>
    ELSE IF Len(a) = 1 THEN PyRepr(a[1])
    ELSE PyRepr(a[1]) \o <<",", " ">> \o PyReprElems(Tail(a))
PyReprMembers(o) ==
    IF o = <<>> THEN <<>>
    ELSE IF Len(o) = 1 THEN <<"'">> \o o[1].k \o <<"'", ":", " ">> \o PyRepr(o[1].val)
    ELSE <<"'">> \o o[1].k \o <<"'", ":", " ">> \o PyRepr(o[1].val) \o <<",", " ">>
            \o PyReprMembers(Tail(o))

\* str(v)
PyStrOf(v) == IF v.t = "str" THEN v.s ELSE PyRepr(v)

\* not v
PyFalsy(v) ==
    CASE v.t = "null" -> TRUE
      [] v.t = "str" -> v.s = <<>>
      [] v.t \in {"int", "bool"} -> v.n = 0
      [] v.t = "list" -> v.a = <<>>
      [] v.t = "dict" -> v.o = <<>>

K_file == <<"f","i","l","e">>
K_line == <<"l","i","n","e">>
K_comment == <<"c","o","m","m","e","n","t">>

\* the three reads of an item; ok is FALSE when one of them raises
ItemFields(item) ==
    IF item.t # "dict" THEN [ok |-> FALSE, file |-> PyNone, line |-> 0, comment |-> <<>>]
    ELSE [ok |-> PyIntOf(DictGetOr(item.o, K_line, PyNone)).ok,
          file |-> DictGetOr(item.o, K_file, PyNone),
          line |-> PyIntOf(DictGetOr(item.o, K_line, PyNone)).n,
          comment |-> Strip(PyStrOf(DictGetOr(item.o, K_comment, PyStr(<<>>))))]

\* a plausible slip: the line is not checked against the file's added lines
ItemKeptAnyLine(item, d) ==
    LET f == ItemFields(item)
    IN  /\ f.ok
        /\ ~PyFalsy(f.file) /\ f.file.t = "str"
        /\ f.comment # <<>>
        /\ is_reviewable_file(f.file)
        /\ DictHas(d, f.file.s)

\* whether the loop body appends the item
ItemKept(item, d) ==
    LET f == ItemFields(item)
    IN  /\ f.ok
        /\ ~PyFalsy(f.file) /\ f.file.t = "str"
        /\ f.comment # <<>>
        /\ is_reviewable_file(f.file)
        /\ DictHas(d, f.file.s)
        /\ f.line \in DictLines(d, f.file.s)

RECURSIVE filter_items_to_changed_lines(_, _)
filter_items_to_changed_lines(its, d) ==
    IF its = <<>> THEN <<>>
    ELSE IF ItemKept(Head(its), d)
    THEN <<Finding(ItemFields(Head(its)).file.s, ItemFields(Head(its)).line,
                   ItemFields(Head(its)).comment)>>
            \o filter_items_to_changed_lines(Tail(its), d)
    ELSE filter_items_to_changed_lines(Tail(its), d)

(***************************************************************************)
(* rule_based_review.  The text of a line is represented by the set of     *)
(* the regular expressions of the function that match it (re.search on     *)
(* the stripped line), named as below; everything else is as in the code.  *)
(***************************************************************************)
Patterns ==
    {"todo", "debug", "secret", "looseeq", "async", "awaitthen",
     "csfield", "csconcat", "vueclick", "tsany"}

MsgTodo == <<"F","o","u","n","d"," ","T","O","D","O","/","F","I","X","M","E","."," ","R","e","s","o","l","v",
      "e"," ","o","r"," ","t","r","a","c","k"," ","b","e","f","o","r","e"," ","m","e","r","g","i","n",
      "g",".">>
MsgDebug == <<"R","e","m","o","v","e"," ","d","e","b","u","g"," ","l","o","g","g","i","n","g"," ","b","e","f",
      "o","r","e"," ","c","o","m","m","i","t"," ","o","r"," ","g","u","a","r","d"," ","b","e","h","i",
      "n","d"," ","e","n","v"," ","f","l","a","g",".">>
MsgSecret == <<"P","o","t","e","n","t","i","a","l"," ","s","e","c","r","e","t"," ","i","n"," ","c","o","d","e",
      "."," ","U","s","e"," ","e","n","v"," ","v","a","r","s"," ","o","r"," ","s","e","c","r","e","t",
      " ","m","a","n","a","g","e","r",".">>
MsgLooseEq == <<"U","s","e"," ","s","t","r","i","c","t"," ","e","q","u","a","l","i","t","y"," ","(","=","=","=",
      ")"," ","i","n"," ","J","S","/","T","S"," ","t","o"," ","a","v","o","i","d"," ","c","o","e","r",
      "c","i","o","n",".">>
MsgAsync == <<"A","s","y","n","c"," ","c","a","l","l"," ","w","i","t","h","o","u","t"," ","a","w","a","i","t",
      "/","t","h","e","n","."," ","E","n","s","u","r","e"," ","p","r","o","m","i","s","e"," ","i","s",
      " ","h","a","n","d","l","e","d",".">>
MsgCsField == <<"P","r","e","f","e","r"," ","p","r","o","p","e","r","t","i","e","s"," ","(","g","e","t","/","s",
      "e","t",")"," ","i","n","s","t","e","a","d"," ","o","f"," ","p","u","b","l","i","c"," ","f","i",
      "e","l","d","s"," ","i","n"," ","C","#",".">>
MsgCsConcat == <<"A","v","o","i","d"," ","s","t","r","i","n","g"," ","c","o","n","c","a","t","e","n","a","t","i",
      "o","n"," ","i","n"," ","l","o","o","p","s",";"," ","u","s","e"," ","S","t","r","i","n","g","B",
      "u","i","l","d","e","r"," ","i","n"," ","C","#",".">>
MsgVueClick == <<"P","r","e","f","e","r"," ","e","x","t","r","a","c","t","i","n","g"," ","h","a","n","d","l","e",
      "r","s"," ","a","n","d"," ","u","s","i","n","g"," ","m","o","d","i","f","i","e","r","s"," ","i",
      "n"," ","V","u","e"," ","f","o","r"," ","c","l","a","r","i","t","y",".">>
MsgTsAny == <<"A","v","o","i","d"," ","'","a","n","y","'"," ","i","n"," ","T","y","p","e","S","c","r","i","p",
      "t",";"," ","u","s","e"," ","s","p","e","c","i","f","i","c"," ","t","y","p","e","s"," ","o","r",
      " ","u","n","k","n","o","w","n",".">>

JsFamilyExts == {<<".","j","s">>, <<".","j","s","x">>, <<".","t","s">>, <<".","t","s","x">>, <<".","v","u","e">>}

NumDetectors == 9

\* the comment of the k-th check of the loop body
DetectorMsg(k) ==
    CASE k = 1 -> MsgTodo [] k = 2 -> MsgDebug [] k = 3 -> MsgSecret
      [] k = 4 -> MsgLooseEq [] k = 5 -> MsgAsync [] k = 6 -> MsgCsField
      [] k = 7 -> MsgCsConcat [] k = 8 -> MsgVueClick [] k = 9 -> MsgTsAny

\* the condition of the k-th check of the loop body, for a file and a line's text
DetectorFires(k, f, text) ==
    CASE k = 1 -> "todo" \in text
      [] k = 2 -> "debug" \in text
      [] k = 3 -> "secret" \in text
      [] k = 4 -> EndsWithAny(f, JsFamilyExts) /\ "looseeq" \in text
      [] k = 5 -> "async" \in text /\ "awaitthen" \notin text
      [] k = 6 -> EndsWith(f, <<".","c","s">>) /\ "csfield" \in text
      [] k = 7 -> EndsWith(f, <<".","c","s">>) /\ "csconcat" \in text
      [] k = 8 -> EndsWith(f, <<".","v","u","e">>) /\ "vueclick" \in text
      [] k = 9 -> EndsWith(f, <<".","t","s">>) /\ "tsany" \in text

\* a plausible slip: add() appends whether or not the line was added
AddFindingUnscoped(results, f, added, line_no, msg) ==
    Append(results, Finding(f, line_no, msg))

\* add(line_no, msg)
AddFinding(results, f, added, line_no, msg) ==
    IF line_no \in added THEN Append(results, Finding(f, line_no, msg)) ELSE results

\* the checks k, k + 1, ... of the loop body on line line_no
RECURSIVE CheckLine(_, _, _, _, _, _)
CheckLine(results, f, added, line_no, text, k) ==
    IF k > NumDetectors THEN results
    ELSE CheckLine(IF DetectorFires(k, f, text)
                   THEN AddFinding(results, f, added, line_no, DetectorMsg(k))
                   ELSE results,
                   f, added, line_no, text, k + 1)

\* the iterations line_no, line_no + 1, ... of the loop over enumerate(lines, start=1)
RECURSIVE CheckLines(_, _, _, _, _)
CheckLines(results, f, added, lines, line_no) ==
    IF line_no > Len(lines) THEN results
    ELSE CheckLines(CheckLine(results, f, added, line_no, lines[line_no], 1),
                    f, added, lines, line_no + 1)

\* rule_based_review(file_path, added_lines), file being the outcome of reading the file
rule_based_review(f, added, file) ==
    IF ~file.readable THEN <<>> ELSE CheckLines(<<>>, f, added, file.lines, 1)

(***************************************************************************)
(* extract_json_array applied to a text.                                   *)
(***************************************************************************)
Scenario3Body == <<"[","{","'","f","i","l","e","'",":"," ","'","a",".","p","y","'",","," ","l","i","n","e",":"," ",
      "3",","," ","c","o","m","m","e","n","t",":"," ","'","f","i","x"," ","t","h","i","s","'","}","]">>
Scenario3Text == <<"H","e","r","e"," ","y","o","u"," ","g","o",":"," ">> \o Scenario3Body \o <<" ","t","h","a","n","k","s">>

TextPrefixes == { <<>>, <<"H","e","r","e"," ","y","o","u"," ","g","o",":"," ">>, <<" ">>, <<"s","e","e"," ","[","0","]",","," ">> }
TextBodies ==
    { <<"[","]">>,
      <<"[","{","\"","f","i","l","e","\"",":"," ","\"","a",".","p","y","\"",","," ","\"","l","i","n","e","\"",
      ":"," ","3",","," ","\"","c","o","m","m","e","n","t","\"",":"," ","\"","f","i","x"," ","t","h","i",
      "s","\"","}","]">>,
      Scenario3Body,
      <<"{","\"","i","t","e","m","s","\"",":"," ","[","1","]","}">>,
      <<"\"","s","e","e"," ","[","1","]","\"">>,
      <<"3">>,
      <<"[","1",","," ","2">>,
      <<"[","[","1","]",","," ","[","-","2","]",","," ","t","r","u","e",","," ","n","u","l","l",","," ",
      "{","\"","k","\"",":"," ","\"","v","\"",","," ","\"","k","\"",":"," ","0","}","]">>,
      <<"[","1","]"," ","a","n","d"," ","[","2","]">>,
      <<"n","u","l","l">>,
      <<>> }
TextSuffixes == { <<>>, <<" ","t","h","a","n","k","s">>, <<"\n">>, <<" ","]">> }

TextInputs == {p \o b \o s : <<p, b, s>> \in TextPrefixes \X TextBodies \X TextSuffixes}

InitExtract ==
    /\ pc = "extract_json_array"
    /\ raw_text \in TextInputs
    /\ prompted = FALSE /\ serviceCalls = 0 /\ items = <<>> /\ outcome = "none"
    /\ EligIdle /\ ParseIdle /\ ScanIdle /\ ResultIdle

ExtractJsonArray ==
    /\ pc = "extract_json_array"
    /\ items' = extract_json_array(raw_text)
    /\ pc' = "done"
    /\ UNCHANGED <<path, reviewable, parseVars, scanVars, prompted, serviceCalls, raw_text,
                   outcome, result, raised>>

NextExtract == ExtractJsonArray

SpecExtract == InitExtract /\ [][NextExtract]_vars

(***************************************************************************)
(* filter_items_to_changed_lines applied to candidates and a dict.         *)
(***************************************************************************)
\* the longest list of candidates
MaxItems == 2

FileValueInputs == {PyStr(P_a_py), PyStr(P_src_app_js), PyStr(P_node), PyStr(<<>>), PyInt(7)}
LineValueInputs ==
    {PyInt(3), PyInt(4), PyStr(<<" ","3"," ">>), PyStr(<<"x">>), PyNone, PyBool(TRUE)}
CommentValueInputs ==
    {PyStr(<<" ","f","i","x"," ","t","h","i","s"," ">>), PyStr(<<" "," ">>), PyNone, PyInt(5), PyList(<<>>)}

ItemInputs ==
    {PyDict(<<Member(K_file, f), Member(K_line, l), Member(K_comment, c)>>) :
        <<f, l, c>> \in FileValueInputs \X LineValueInputs \X CommentValueInputs}
    \cup {PyDict(<<Member(K_file, PyStr(P_a_py)), Member(K_line, PyInt(3))>>),
          PyDict(<<Member(K_line, PyInt(3)), Member(K_comment, PyStr(<<"n","o"," ","f","i","l","e">>))>>),
          PyDict(<<Member(K_file, PyStr(P_a_py)), Member(K_comment, PyStr(<<"n","o"," ","l","i","n","e">>))>>),
          PyStr(<<"n","o","t"," ","a","n"," ","o","b","j","e","c","t">>), PyInt(1), PyNone}

DictInputs ==
    { <<[file |-> P_a_py, lines |-> {1, 3}]>>,
      <<[file |-> P_src_app_js, lines |-> {4}], [file |-> P_a_py, lines |-> {}]>> }

InitFilter ==
    /\ pc = "filter_items_to_changed_lines"
    /\ items \in SeqsUpTo(ItemInputs, MaxItems)
    /\ added_lines_by_file \in DictInputs
    /\ change = <<>> /\ diff = <<>> /\ idx = 0
    /\ file_path = PyNone /\ new_line_number = PyNone /\ prev_cursor = PyNone
    /\ prompted = FALSE /\ serviceCalls = 0 /\ raw_text = <<>> /\ outcome = "none"
    /\ EligIdle /\ ScanIdle /\ ResultIdle

FilterItemsToChangedLines ==
    /\ pc = "filter_items_to_changed_lines"
    /\ result' = filter_items_to_changed_lines(items, added_lines_by_file)
    /\ pc' = "done"
    /\ UNCHANGED <<path, reviewable, parseVars, scanVars, serviceVars, raised>>

NextFilter == FilterItemsToChangedLines

SpecFilter == InitFilter /\ [][NextFilter]_vars

(***************************************************************************)
(* rule_based_review applied to a file and a set of added lines.           *)
(***************************************************************************)
\* the longest file
MaxFileLines == 2

RulePathInputs == {P_src_app_js, <<"F","o","r","m",".","c","s">>, <<"A","p","p",".","v","u","e">>, <<"l","i","b","/","b",".","t","s">>, P_a_py}

LineTextInputs ==
    { {}, {"todo"}, {"todo", "debug", "secret"}, {"looseeq", "tsany"},
      {"async"}, {"async", "awaitthen"}, {"csfield", "csconcat", "vueclick"} }

FileInputs ==
    {NoFile} \cup {[readable |-> TRUE, lines |-> ls] : ls \in SeqsUpTo(LineTextInputs, MaxFileLines)}

InitRules ==
    /\ pc = "rule_based_review"
    /\ path \in {PyStr(p) : p \in RulePathInputs}
    /\ src \in FileInputs
    /\ added_lines \in SUBSET (1..(MaxFileLines + 1))
    /\ reviewable = FALSE
    /\ fileIdx = 0 /\ rule_based_items = <<>> /\ scanned = <<>>
    /\ ParseIdle /\ ServiceIdle /\ ResultIdle

RuleBasedReview ==
    /\ pc = "rule_based_review"
    /\ result' = rule_based_review(path.s, added_lines, src)
    /\ pc' = "done"
    /\ UNCHANGED <<path, reviewable, parseVars, scanVars, serviceVars, raised>>

NextRules == RuleBasedReview

SpecRules == InitRules /\ [][NextRules]_vars

(***************************************************************************)
(* review_code applied to a diff, with the files it reads and the          *)
(* generative service as its environment.                                  *)
(***************************************************************************)
ErrorPrefix == <<"E","r","r","o","r"," ","g","e","t","t","i","n","g"," ","d","i","f","f",":">>
ErrorLine == <<"E","r","r","o","r"," ","g","e","t","t","i","n","g"," ","d","i","f","f",":"," ","n","o"," ","r",
      "e","p","o","s","i","t","o","r","y">>

\* the most file sections of a change
MaxSections == 2

SectionInputs ==
    {Section(p, <<Hunk(3, ls)>>) :
        <<p, ls>> \in {P_a_py, P_src_app_js} \X
            { <<HunkLine("add", T_y), HunkLine("add", T_x)>>,
              <<HunkLine("ctx", T_x), HunkLine("add", T_y)>>,
              <<HunkLine("add", T_inc), HunkLine("add", T_y)>>,
              <<HunkLine("del", T_z)>> }}
    \cup {Section(P_node, <<Hunk(20, <<HunkLine("add", T_y), HunkLine("add", T_x)>>)>>)}

ReviewChanges == SeqsUpTo(SectionInputs, MaxSections) \ {<<>>}

\* the diffs that do not come from a change: the empty text and the text of a failure
ErrorDiffs ==
    { <<>>, <<ErrorLine>>,
      <<ErrorLine>> \o Render(<<Section(P_a_py, <<Hunk(3, <<HunkLine("add", T_y)>>)>>)>>) }

\* what reading a file may give
ReviewFileInputs ==
    { NoFile,
      [readable |-> TRUE, lines |-> <<{}, {}, {}, {}>>],
      [readable |-> TRUE, lines |-> <<{"todo"}, {}, {"debug"}, {"todo", "secret"}>>] }

\* what the service may answer
ServiceTexts ==
    { <<"[","{","\"","f","i","l","e","\"",":"," ","\"","a",".","p","y","\"",","," ","\"","l","i","n","e","\"",
      ":"," ","3",","," ","\"","c","o","m","m","e","n","t","\"",":"," ","\"","f","i","x"," ","t","h","i",
      "s","\"","}","]">>,
      <<"S","u","r","e",":"," ","[","{","\"","f","i","l","e","\"",":"," ","\"","a",".","p","y","\"",","," ",
      "\"","l","i","n","e","\"",":"," ","4",","," ","\"","c","o","m","m","e","n","t","\"",":"," ","\"","x",
      "\"","}",","," ">>
        \o <<"{","\"","f","i","l","e","\"",":"," ","\"","a",".","p","y","\"",","," ","\"","l","i","n","e","\"",":",
      " ","9","9",","," ","\"","c","o","m","m","e","n","t","\"",":"," ","\"","y","\"","}",","," ">>
        \o <<"{","\"","f","i","l","e","\"",":"," ","\"","n","o","d","e","_","m","o","d","u","l","e","s","/","x",
      "/","i","n","d","e","x",".","j","s","\"",","," ","\"","l","i","n","e","\"",":"," ","2","0",","," ",
      "\"","c","o","m","m","e","n","t","\"",":"," ","\"","z","\"","}",","," ">>
        \o <<"{","\"","f","i","l","e","\"",":"," ","\"","s","r","c","/","a","p","p",".","j","s","\"",","," ","\"",
      "l","i","n","e","\"",":"," ","\"","3","\"",","," ","\"","c","o","m","m","e","n","t","\"",":"," ","n",
      "u","l","l","}","]">>,
      Scenario3Text,
      <<"n","o"," ","i","s","s","u","e","s"," ","f","o","u","n","d">>,
      <<"{","\"","f","i","l","e","\"",":"," ","\"","a",".","p","y","\"",","," ","\"","l","i","n","e","\"",":",
      " ","3",","," ","\"","c","o","m","m","e","n","t","\"",":"," ","\"","a","n"," ","o","b","j","e","c",
      "t","\"","}">>,
      <<"[","{","\"","f","i","l","e","\"",":"," ","\"","s","r","c","/","o","t","h","e","r",".","j","s","\"",
      ","," ","\"","l","i","n","e","\"",":"," ","3",","," ","\"","c","o","m","m","e","n","t","\"",":"," ",
      "\"","u","n","k","n","o","w","n"," ","f","i","l","e","\"","}",","," ","7","]">> }

InitReview ==
    /\ pc = "review_code"
    /\ \/ change \in ReviewChanges /\ diff = Render(change)
       \/ change = <<>> /\ diff \in ErrorDiffs
    /\ idx = 0
    /\ file_path = PyNone /\ new_line_number = PyNone
    /\ added_lines_by_file = <<>> /\ prev_cursor = PyNone
    /\ EligIdle /\ ScanIdle /\ ServiceIdle /\ ResultIdle

\* not diff or diff.startswith("Error getting diff:")
DiffRejected(d) == IF d = <<>> THEN TRUE ELSE StartsWith(d[1], ErrorPrefix)

\* if not diff or diff.startswith(...): return []
ReviewRejectsDiff ==
    /\ pc = "review_code"
    /\ DiffRejected(diff)
    /\ result' = <<>>
    /\ pc' = "done"
    /\ UNCHANGED <<path, reviewable, parseVars, scanVars, serviceVars, raised>>

\* added_lines_by_file = parse_unified_diff(diff): the call
ReviewStartsParse ==
    /\ pc = "review_code"
    /\ ~DiffRejected(diff)
    /\ pc' = "parse"
    /\ UNCHANGED <<path, reviewable, parseVars, scanVars, serviceVars, result, raised>>

\* added_lines_by_file = parse_unified_diff(diff): the return
ReviewParsed ==
    /\ pc = "parse"
    /\ idx = Len(diff)
    /\ pc' = "scan"
    /\ UNCHANGED <<path, reviewable, parseVars, scanVars, serviceVars, result, raised>>

\* an iteration of the loop over the dict, for a file with no added line
ScanSkipsFile ==
    /\ pc = "scan"
    /\ fileIdx < Len(added_lines_by_file)
    /\ added_lines_by_file[fileIdx + 1].lines = {}
    /\ fileIdx' = fileIdx + 1
    /\ UNCHANGED <<pc, path, reviewable, parseVars, src, added_lines, rule_based_items,
                   scanned, serviceVars, result, raised>>

\* an iteration of the loop over the dict, for a file with added lines
ScanFile ==
    /\ pc = "scan"
    /\ fileIdx < Len(added_lines_by_file)
    /\ added_lines_by_file[fileIdx + 1].lines # {}
    /\ \E file \in ReviewFileInputs :
          LET entry == added_lines_by_file[fileIdx + 1]
              file_items == rule_based_review(entry.file, entry.lines, file)
          IN  /\ path' = PyStr(entry.file)
              /\ added_lines' = entry.lines
              /\ src' = file
              /\ rule_based_items' = rule_based_items \o file_items
              /\ scanned' = Append(scanned, [file |-> entry.file,
                                             content |-> file,
                                             found |-> Len(file_items)])
    /\ fileIdx' = fileIdx + 1
    /\ UNCHANGED <<pc, reviewable, parseVars, serviceVars, result, raised>>

\* a plausible slip: the rule engine's findings are not looked at
RulesFoundIgnored(its) == FALSE

\* if rule_based_items:
RulesFound(its) == its # <<>>

\* return rule_based_items
ReturnRuleItems ==
    /\ pc = "scan"
    /\ fileIdx = Len(added_lines_by_file)
    /\ RulesFound(rule_based_items)
    /\ result' = rule_based_items
    /\ pc' = "done"
    /\ UNCHANGED <<path, reviewable, parseVars, scanVars, serviceVars, raised>>

\* prompt = build_review_prompt(added_lines_by_file)
BuildPrompt ==
    /\ pc = "scan"
    /\ fileIdx = Len(added_lines_by_file)
    /\ ~RulesFound(rule_based_items)
    /\ prompted' = TRUE
    /\ pc' = "generate"
    /\ UNCHANGED <<path, reviewable, parseVars, scanVars, serviceCalls, raw_text, items,
                   outcome, result, raised>>

\* a plausible slip: the call of the service is not guarded
ServiceRaisesUncaught ==
    /\ pc = "generate"
    /\ serviceCalls' = serviceCalls + 1
    /\ outcome' = "raised"
    /\ raised' = TRUE
    /\ pc' = "done"
    /\ UNCHANGED <<path, reviewable, parseVars, scanVars, prompted, raw_text, items, result>>

\* client.generate raises: except Exception: return []
ServiceRaises ==
    /\ pc = "generate"
    /\ serviceCalls' = serviceCalls + 1
    /\ outcome' = "raised"
    /\ result' = <<>>
    /\ pc' = "done"
    /\ UNCHANGED <<path, reviewable, parseVars, scanVars, prompted, raw_text, items, raised>>

\* client.generate returns a text: extract, filter, return
ServiceReturns ==
    /\ pc = "generate"
    /\ serviceCalls' = serviceCalls + 1
    /\ outcome' = "text"
    /\ \E text \in ServiceTexts :
          /\ raw_text' = text
          /\ items' = extract_json_array(text)
          /\ result' = filter_items_to_changed_lines(extract_json_array(text),
                                                     added_lines_by_file)
    /\ pc' = "done"
    /\ UNCHANGED <<path, reviewable, parseVars, scanVars, prompted, raised>>

Next ==
    \/ ReviewRejectsDiff
    \/ ReviewStartsParse
    \/ ParseLine
    \/ ReviewParsed
    \/ ScanSkipsFile
    \/ ScanFile
    \/ ReturnRuleItems
    \/ BuildPrompt
    \/ ServiceRaises
    \/ ServiceReturns

Spec == InitReview /\ [][Next]_vars

(***************************************************************************)
(* The claims.                                                             *)
(***************************************************************************)
\* the file name of a path: its last component
FileName(s) == SubSeq(s, RFind(s, "/") + 1, Len(s))

\* C10 (as claimed): is_reviewable_file(path) is true exactly when path is a string
\* outside the excluded directory prefixes, whose file name (its last path component)
\* is not review_pr.py or review.py, and whose extension is in the allow-list.
C10_FileNameExclusion ==
    pc = "done" =>
        (reviewable <=>
            /\ path.t = "str"
            /\ ~StartsWithAny(path.s, excluded_prefixes)
            /\ FileName(path.s) \notin excluded_files
            /\ EndsWithAny(path.s, allowed_exts))

\* C1 (as claimed): every number recorded for a file is the new-revision number of a
\* line the change adds to that file, and a removed line leaves the cursor unchanged.
C1_RecordedAreAdded ==
    /\ \A i \in 1..Len(added_lines_by_file) :
          added_lines_by_file[i].lines \subseteq AddedIn(change, added_lines_by_file[i].file)
    /\ (idx > 0 /\ RenderedKinds(change)[idx] = "del") => new_line_number = prev_cursor

\* the repair of stage 3, as the specification words it: quote the bare object keys
\* (an identifier immediately followed by a colon), then turn single quotes into
\* double quotes
IdentChars ==
    Digits \cup {"_"} \cup
    {"a","b","c","d","e","f","g","h","i","j","k","l","m","n","o","p","q","r","s","t",
     "u","v","w","x","y","z","A","B","C","D","E","F","G","H","I","J","K","L","M","N",
     "O","P","Q","R","S","T","U","V","W","X","Y","Z"}
RECURSIVE QuoteBareKeys(_, _)
QuoteBareKeys(s, i) ==
    IF i > Len(s) THEN <<>>
    ELSE IF s[i] \in IdentChars
    THEN LET j == SkipWhile(s, i, IdentChars)
         IN  IF At(s, j, ":")
             THEN <<"\"">> \o SubSeq(s, i, j - 1) \o <<"\"">> \o QuoteBareKeys(s, j)
             ELSE SubSeq(s, i, j - 1) \o QuoteBareKeys(s, j)
    ELSE <<s[i]>> \o QuoteBareKeys(s, i + 1)
NormalizeQuotes(s) == [i \in 1..Len(s) |-> IF s[i] = "'" THEN "\"" ELSE s[i]]
Repaired(s) == NormalizeQuotes(QuoteBareKeys(s, 1))

HasCandidate(text) ==
    Find(text, "[") # 0 /\ RFind(text, "]") # 0 /\ RFind(text, "]") > Find(text, "[")
Candidate(text) == SubSeq(text, Find(text, "["), RFind(text, "]"))
ParsesAsList(s) == json_loads(s).ok /\ json_loads(s).val.t = "list"

Scenario3Object ==
    PyDict(<<Member(K_file, PyStr(P_a_py)), Member(K_line, PyInt(3)),
             Member(K_comment, PyStr(<<"f","i","x"," ","t","h","i","s">>))>>)

\* C4 (as claimed): a text whose block from the first [ to the last ] does not parse
\* as it is but parses as an array once repaired yields the repaired array; the text
\* of scenario 3 yields exactly one object {file: a.py, line: 3, comment: fix this}.
C4_Stage3Repair ==
    pc = "done" =>
        /\ (/\ ~json_loads(raw_text).ok
            /\ HasCandidate(raw_text)
            /\ ~json_loads(Candidate(raw_text)).ok
            /\ ParsesAsList(Repaired(Candidate(raw_text))))
           => items = json_loads(Repaired(Candidate(raw_text))).val.a
        /\ raw_text = Scenario3Text => items = <<Scenario3Object>>

\* C8 (as claimed): whenever the whole text is not itself an array (it fails to
\* parse, or parses to another kind of value) and its block from the first [ to the
\* last ] parses as an array, the extractor returns that array.
C8_Stage2AfterAnyStage1Miss ==
    pc = "done" =>
        ((~ParsesAsList(raw_text) /\ HasCandidate(raw_text)
            /\ ParsesAsList(Candidate(raw_text)))
         => items = json_loads(Candidate(raw_text)).val.a)

\* the candidates the claim keeps
ClaimValid(item, d) ==
    /\ item.t = "dict"
    /\ DictGetOr(item.o, K_file, PyNone).t = "str"
    /\ is_reviewable_file(DictGetOr(item.o, K_file, PyNone))
    /\ DictHas(d, DictGetOr(item.o, K_file, PyNone).s)
    /\ PyIntOf(DictGetOr(item.o, K_line, PyNone)).ok
    /\ PyIntOf(DictGetOr(item.o, K_line, PyNone)).n
          \in DictLines(d, DictGetOr(item.o, K_file, PyNone).s)
    /\ DictGetOr(item.o, K_comment, PyNone).t = "str"
    /\ Strip(DictGetOr(item.o, K_comment, PyNone).s) # <<>>
RECURSIVE ClaimFiltered(_, _)
ClaimFiltered(its, d) ==
    IF its = <<>> THEN <<>>
    ELSE IF ClaimValid(Head(its), d)
    THEN <<Finding(DictGetOr(Head(its).o, K_file, PyNone).s,
                   PyIntOf(DictGetOr(Head(its).o, K_line, PyNone)).n,
                   Strip(DictGetOr(Head(its).o, K_comment, PyNone).s))>>
            \o ClaimFiltered(Tail(its), d)
    ELSE ClaimFiltered(Tail(its), d)

\* C6 (as claimed): the filter returns, in input order, exactly the candidates whose
\* file is an eligible string key of the dict, whose line coerces to an integer of
\* that file's set and whose comment is text that is not blank; every returned
\* finding carries a non-empty trimmed comment.
C6_ExactlyValidCandidates ==
    pc = "done" =>
        /\ result = ClaimFiltered(items, added_lines_by_file)
        /\ \A i \in 1..Len(result) :
              result[i].comment # <<>> /\ Strip(result[i].comment) = result[i].comment

\* the place of a detector in the fixed order: marker-comment, debug-output,
\* secret-like-assignment, loose-equality, unawaited-async-call, then the
\* extension-gated detectors
ClaimRank(msg) ==
    CASE msg = MsgTodo -> 1 [] msg = MsgDebug -> 2 [] msg = MsgSecret -> 3
      [] msg = MsgLooseEq -> 4 [] msg = MsgAsync -> 5 [] msg = MsgCsField -> 6
      [] msg = MsgCsConcat -> 7 [] msg = MsgVueClick -> 8 [] msg = MsgTsAny -> 9
      [] OTHER -> 0
MatchingPairs ==
    {lk \in (1..Len(src.lines)) \X (1..NumDetectors) :
        lk[1] \in added_lines /\ DetectorFires(lk[2], path.s, src.lines[lk[1]])}

\* C9: for a readable file, rule_based_review returns exactly one finding per pair
\* (added line, detector that matches the line), ordered by line and, within a line,
\* by the fixed detector order; an unreadable file gives no finding.
C9_OneFindingPerLineAndDetector ==
    pc = "done" =>
        IF ~src.readable THEN result = <<>>
        ELSE /\ Len(result) = Cardinality(MatchingPairs)
             /\ \A i \in 1..Len(result) :
                   /\ result[i].file = path.s
                   /\ \E k \in 1..NumDetectors :
                         /\ result[i].comment = DetectorMsg(k)
                         /\ ClaimRank(result[i].comment) = k
                         /\ <<result[i].line, k>> \in MatchingPairs
             /\ \A i, j \in 1..Len(result) : i < j =>
                   \/ result[i].line < result[j].line
                   \/ /\ result[i].line = result[j].line
                      /\ ClaimRank(result[i].comment) < ClaimRank(result[j].comment)

\* a file where one added line matches several detectors and a line that was not
\* added matches one
C9_Witness ==
    /\ pc = "done" /\ src.readable
    /\ Len(result) >= 3
    /\ \E i \in 1..Len(result) : i < Len(result) /\ result[i].line = result[i + 1].line
    /\ \E l \in 1..Len(src.lines) :
          l \notin added_lines /\ \E k \in 1..NumDetectors : DetectorFires(k, path.s, src.lines[l])

\* C2: every finding review_code returns has a file that is a key of the dict parsed
\* from the diff, a line of that file's set of added lines, and a file that satisfies
\* is_reviewable_file, whether it comes from the rule engine or from the service.
C2_FindingsWithinDiffMap ==
    pc = "done" =>
        \A i \in 1..Len(result) :
            /\ DictHas(added_lines_by_file, result[i].file)
            /\ result[i].line \in DictLines(added_lines_by_file, result[i].file)
            /\ is_reviewable_file(PyStr(result[i].file))

\* the service answered with candidates of which some were kept and some dropped
C2_Witness ==
    /\ pc = "done" /\ outcome = "text"
    /\ result # <<>>
    /\ Len(result) < Len(items)

\* the files of the dict that have added lines
FilesWithAddedLines ==
    {added_lines_by_file[i].file :
        i \in {j \in 1..Len(added_lines_by_file) : added_lines_by_file[j].lines # {}}}
ScannedFiles == {scanned[i].file : i \in 1..Len(scanned)}

\* C3: once the rule engine has a finding, the prompt is never built and the service
\* never called, and the result is the rule engine's findings; the service is called
\* at most once, after every file with added lines was scanned and only when the rule
\* engine found nothing, so that a result comes from one source.
C3_FallbackLaw ==
    /\ rule_based_items # <<>> => ~prompted /\ serviceCalls = 0 /\ outcome = "none"
    /\ (pc = "done" /\ rule_based_items # <<>>) => result = rule_based_items
    /\ serviceCalls <= 1
    /\ (prompted \/ serviceCalls > 0) =>
          /\ rule_based_items = <<>>
          /\ fileIdx = Len(added_lines_by_file)
          /\ FilesWithAddedLines \subseteq ScannedFiles
    /\ serviceCalls > 0 => prompted

\* the rule engine found something in the second of two scanned files and the
\* function returned it
C3_Witness ==
    /\ pc = "done"
    /\ Len(scanned) = 2 /\ scanned[1].found = 0 /\ scanned[2].found > 0
    /\ result = rule_based_items

\* for each line of Render(c), the path of the last +++ header at or before it
\* (the empty path before the first header)
RECURSIVE RenderedOwners(_, _)
RenderedOwners(c, before) ==
    IF c = <<>> THEN <<>>
    ELSE <<before, before, before, Head(c).path>>
            \o [i \in 1..Len(RenderHunks(Head(c).hunks)) |-> Head(c).path]
            \o RenderedOwners(Tail(c), Head(c).path)
OwnerOfLine(k) == RenderedOwners(change, <<>>)[k]
UnderIneligibleHeader(k) ==
    k > 0 /\ OwnerOfLine(k) # <<>> /\ ~is_reviewable_file(PyStr(OwnerOfLine(k)))

\* C5: every key of the dict satisfies is_reviewable_file; a header whose path fails
\* the filter creates no entry and deselects the current file, no line from that
\* header to the next eligible header is recorded under any file, and
\* rule_based_review is never called for such a path.
C5_IneligibleNeverTracked ==
    /\ [](/\ \A f \in DictKeys(added_lines_by_file) : is_reviewable_file(PyStr(f))
          /\ UnderIneligibleHeader(idx) => file_path = PyNone
          /\ \A f \in ScannedFiles : is_reviewable_file(PyStr(f)))
    /\ [][UnderIneligibleHeader(idx') => added_lines_by_file' = added_lines_by_file]_vars

\* an ineligible file's section was parsed after an eligible file's, and the scan ran
C5_Witness ==
    /\ pc = "done"
    /\ Len(change) = 2
    /\ is_reviewable_file(PyStr(change[1].path))
    /\ ~is_reviewable_file(PyStr(change[2].path))
    /\ idx = Len(diff)
    /\ scanned # <<>>

C7_WitnessRejected ==
    /\ pc = "done" /\ Len(diff) > 1 /\ DiffRejected(diff) /\ result = <<>>

====
